---- MODULE Spec2Model ----
(***************************************************************************)
(* A model of tools/hist/fiologparser_hist.py: the bin decoder, the        *)
(* chunked k-way merge of the input logs (histogram_generator), and the    *)
(* interval driver of main() with process_interval.                        *)
(*                                                                         *)
(* Units.  Latency values are kept in HALF microseconds (every value the   *)
(* code computes with edge 0.0, 0.5 or 1.0 is a multiple of 0.5), and      *)
(* times inside process_interval/weights are kept in TICKS of 1/2000 ms,   *)
(* so that  end_time - 0.5*interval - bin_vals/1000.0  stays an integer:   *)
(*    ticks = 2000*end_time - 1000*interval - (bin value in half us).      *)
(* numpy arrays and Python lists are 0-based; tables and histograms are    *)
(* functions over 0..n-1, keeping the source's indices.                    *)
(***************************************************************************)
EXTENDS Integers, Sequences, FiniteSets, TLC

\* ------------------------------------------------------------------------
\* Program constants
\* ------------------------------------------------------------------------
FIO_IO_U_PLAT_BITS == 6
FIO_IO_U_PLAT_VAL == 64
NON_HIST_COLUMNS == 3
max_coarse == 8
DefaultInterval == 1000

\* Python's None: a value that may be None is kept as a sequence of length
\* at most one, None being the empty one
None == << >>
Some(x) == << x >>
Val(o) == o[1]

\* ------------------------------------------------------------------------
\* Bounds of the model
\* ------------------------------------------------------------------------
\* the merge specification: files, rows per file, time stamps 1..MaxTime,
\* chunk sizes 1..MaxSz
MaxFiles == 2
MaxRows == 2
MaxTime == 2
MaxSz == 2
\* the bin-table specification: histogram columns 0..MaxHistCols
MaxHistCols == 1860
\* bin tables are computed for at most MaxFineBins fine bins: the values of
\* the bins above exceed the 32-bit integers of the model checker
MaxFineBins == 1472

\* ------------------------------------------------------------------------
\* Arithmetic helpers
\* ------------------------------------------------------------------------
Pow2(n) == 2 ^ n

\* x >> n and 1 << n of the source, on non-negative integers
ShiftRight(x, n) == x \div Pow2(n)
ShiftLeft(x, n) == x * Pow2(n)

Min2(a, b) == IF a <= b THEN a ELSE b
Max2(a, b) == IF a >= b THEN a ELSE b

RECURSIVE Log2(_)
\* int(np.log2(q)) for q a positive integer
Log2(q) == IF q <= 1 THEN 0 ELSE 1 + Log2(q \div 2)

RECURSIVE SumFn(_, _)
\* the sum of f over the finite set S of its arguments
SumFn(f, S) ==
  IF S = {} THEN 0
  ELSE LET x == CHOOSE y \in S : TRUE IN f[x] + SumFn(f, S \ {x})

\* ------------------------------------------------------------------------
\* BinDecoder: _plat_idx_to_val, plat_idx_to_val_coarse
\* ------------------------------------------------------------------------
\* a plausible slip: the group's base computed without FIO_IO_U_PLAT_BITS
plat_idx_to_val_nobits(idx, edge2) ==
  IF idx < ShiftLeft(FIO_IO_U_PLAT_VAL, 1) THEN 2 * idx
  ELSE LET error_bits == ShiftRight(idx, FIO_IO_U_PLAT_BITS) - 1
           base == ShiftLeft(1, error_bits)
           k == idx % FIO_IO_U_PLAT_VAL
       IN 2 * base + (2 * k + edge2) * ShiftLeft(1, error_bits)

\* _plat_idx_to_val(idx, edge): edge2 is 2*edge (0, 1 or 2); the result is
\* in half microseconds
plat_idx_to_val(idx, edge2) ==
  IF idx < ShiftLeft(FIO_IO_U_PLAT_VAL, 1) THEN 2 * idx
  ELSE LET error_bits == ShiftRight(idx, FIO_IO_U_PLAT_BITS) - 1
           base == ShiftLeft(1, error_bits + FIO_IO_U_PLAT_BITS)
           k == idx % FIO_IO_U_PLAT_VAL
       IN 2 * base + (2 * k + edge2) * ShiftLeft(1, error_bits)

\* plat_idx_to_val_coarse(idx, coarseness, edge), in half microseconds
plat_idx_to_val_coarse(idx, coarse, edge2) ==
  LET stride == ShiftLeft(1, coarse)
      i == idx * stride
      lower == plat_idx_to_val(i, 0)
      upper == plat_idx_to_val(i + stride, 2)
  IN lower + ((upper - lower) * edge2) \div 2

\* ------------------------------------------------------------------------
\* guess_max_from_bins
\* ------------------------------------------------------------------------
\* bins: the candidate numbers of bins (a Python list, here 1-based)
candidate_bins(grp) ==
  IF grp < 19 \/ grp > 26 THEN << grp * ShiftLeft(1, 6) >>
  ELSE << 1216, 1280, 1344, 1408, 1472, 1536, 1600, 1664 >>

\* arr[c][b] of guess_max_from_bins: bins[b] / 2**c, or -10 if not divisible
coarse_table(bins, c, b) ==
  IF bins[b] % Pow2(c) = 0 THEN bins[b] \div Pow2(c) ELSE -10

\* a plausible slip: the row (coarseness) index of the match used as the
\* index into bins
guess_max_from_bins_rowidx(grp, hist_cols) ==
  LET bins == candidate_bins(grp)
      hits == { cb \in (0 .. max_coarse) \X (1 .. Len(bins)) :
                  coarse_table(bins, cb[1], cb[2]) = hist_cols }
  IN IF hits = {} THEN [ok |-> FALSE, max_cols |-> 0]
     ELSE LET first == CHOOSE cb \in hits : \A o \in hits :
                         cb[1] < o[1] \/ (cb[1] = o[1] /\ cb[2] <= o[2])
          IN [ok |-> TRUE,
              max_cols |-> bins[Min2(Len(bins), first[1] + 1)]]

\* guess_max_from_bins(ctx, hist_cols): ok = FALSE is the exit(1) branch;
\* np.where lists the matches in row-major order and idx[1][0] is the
\* column of the first one
guess_max_from_bins(grp, hist_cols) ==
  LET bins == candidate_bins(grp)
      hits == { cb \in (0 .. max_coarse) \X (1 .. Len(bins)) :
                  coarse_table(bins, cb[1], cb[2]) = hist_cols }
  IN IF hits = {} THEN [ok |-> FALSE, max_cols |-> 0]
     ELSE LET first == CHOOSE cb \in hits : \A o \in hits :
                         cb[1] < o[1] \/ (cb[1] = o[1] /\ cb[2] <= o[2])
          IN [ok |-> TRUE, max_cols |-> bins[first[2]]]

\* ------------------------------------------------------------------------
\* State
\* ------------------------------------------------------------------------
VARIABLES
  FILE,            \* ctx.FILE: the contents of the input files, one sequence
                   \* of rows [time, rw, bsz, hist] per file
  buff_size,       \* ctx.buff_size
  warn,            \* ctx.warn
  interval,        \* ctx.interval (None until main sets the default)
  max_latency,     \* ctx.max_latency, seconds
  group_nr,        \* ctx.group_nr
  pc,              \* the position of main()
  HIST_COLUMNS,    \* __HIST_COLUMNS
  TOTAL_COLUMNS,   \* __TOTAL_COLUMNS
  max_cols,        \* main: max_cols, what guess_max_from_bins returned
  bin_vals,        \* bin_vals, half microseconds
  lower_bin_vals,  \* lower_bin_vals, half microseconds
  upper_bin_vals,  \* upper_bin_vals, half microseconds
  gen_pc,          \* histogram_generator: "new", "suspended" (at its yield)
                   \* or "returned"
  rdrs,            \* rdrs: per file, None or the number of rows already read
  arrs,            \* arrs: per file, None or the buffered chunk
  cur,             \* fp of the yield the generator is suspended at (0: none)
  start,           \* main: start
  end,             \* main: end
  arr,             \* main: arr, the sample buffer
  more_data,       \* main: more_data
  stdout,          \* what print() wrote: the header, then the interval rows
  stderr,          \* what err() / sys.stderr.write() wrote
  merged,          \* history: every record histogram_generator yielded
  last_call,       \* history: the last call of process_interval and what
                   \* it computed (None before the first call)
  calls,           \* history: every call of process_interval, in order,
                   \* with the number of records pulled when it was made
  weights_call     \* history: the arguments and the result of the last
                   \* call of weights() made on its own (None before it)

vars == << FILE, buff_size, warn, interval, max_latency, group_nr, pc,
           HIST_COLUMNS, TOTAL_COLUMNS, max_cols, bin_vals, lower_bin_vals,
           upper_bin_vals, gen_pc, rdrs, arrs, cur, start, end, arr,
           more_data, stdout, stderr, merged, last_call, calls,
           weights_call >>

ctx_vars == << FILE, buff_size, warn, max_latency, group_nr >>
table_vars == << HIST_COLUMNS, TOTAL_COLUMNS, max_cols, bin_vals, lower_bin_vals,
                 upper_bin_vals >>
gen_vars == << gen_pc, rdrs, arrs, cur >>
loop_vars == << start, end, arr, more_data >>

\* the file handles fps = [open(f) for f in ctx.FILE], named by position
fps == [i \in 1 .. Len(FILE) |-> i]

\* ------------------------------------------------------------------------
\* StreamMerger: read_chunk, get_min, histogram_generator
\* ------------------------------------------------------------------------
\* the conversion of read_chunk: the time column and the histogram columns,
\* without the two columns rws and szs
strip_row(row) == [time |-> row.time, hist |-> row.hist]

\* read_chunk(rdr, sz) on the reader rdr over the file's rows.  rdr.read()
\* is called without a row count: pandas' TextFileReader.read(nrows=None)
\* returns ALL rows not yet read (only get_chunk()/next() use chunksize),
\* and raises StopIteration when none is left; rdr = None raises
\* AttributeError.  sz is not used by the body.
read_chunk(rows, rdr, sz) ==
  IF rdr = None \/ Val(rdr) = Len(rows) THEN [arr |-> None, rdr |-> rdr]
  ELSE [arr |-> Some([i \in 1 .. (Len(rows) - Val(rdr)) |->
                         strip_row(rows[Val(rdr) + i])]),
        rdr |-> Some(Len(rows))]

\* min() of an empty list raises ValueError: get_min then has no value
ValueError == None

RECURSIVE py_min(_, _, _)
\* Python's min(list, key=...): the first element with the least key
py_min(list, key, best) ==
  IF list = << >> THEN best
  ELSE py_min(Tail(list), key,
              IF key[Head(list)] < key[best] THEN Head(list) ELSE best)

RECURSIVE py_min_last(_, _, _)
\* a plausible slip: the last element with the least key
py_min_last(list, key, best) ==
  IF list = << >> THEN best
  ELSE py_min_last(Tail(list), key,
                   IF key[Head(list)] <= key[best] THEN Head(list) ELSE best)

\* a plausible slip: the greatest key
get_max(files, as) ==
  LET cands == SelectSeq(files, LAMBDA fp : as[fp] # None)
      key == [fp \in DOMAIN as |-> IF as[fp] = None THEN 0 ELSE -Val(as[fp])[1].time]
  IN IF cands = << >> THEN ValueError
     ELSE Some(py_min(Tail(cands), key, Head(cands)))

\* a plausible slip: ties go to the last file
get_min_last(files, as) ==
  LET cands == SelectSeq(files, LAMBDA fp : as[fp] # None)
      key == [fp \in DOMAIN as |-> IF as[fp] = None THEN 0 ELSE Val(as[fp])[1].time]
  IN IF cands = << >> THEN ValueError
     ELSE Some(py_min_last(Tail(cands), key, Head(cands)))

\* get_min(fps, arrs): Some(fp), or ValueError
get_min(files, as) ==
  LET cands == SelectSeq(files, LAMBDA fp : as[fp] # None)
      key == [fp \in DOMAIN as |-> IF as[fp] = None THEN 0 ELSE Val(as[fp])[1].time]
  IN IF cands = << >> THEN ValueError
     ELSE Some(py_min(Tail(cands), key, Head(cands)))

\* lines 108-117: a reader per file, None for an empty file (pandas raises
\* 'No columns to parse from file')
open_rdrs ==
  [fp \in DOMAIN FILE |-> IF FILE[fp] = << >> THEN None ELSE Some(0)]

\* a plausible slip: the warning written whatever ctx.warn says
empty_warnings_always ==
  [i \in 1 .. Cardinality({fp \in DOMAIN FILE : FILE[fp] = << >>}) |->
      "WARNING: Empty input file encountered."]

\* lines 113-114: one warning per empty file, if ctx.warn
empty_warnings ==
  IF warn
  THEN [i \in 1 .. Cardinality({fp \in DOMAIN FILE : FILE[fp] = << >>}) |->
          "WARNING: Empty input file encountered."]
  ELSE << >>

\* a plausible slip: arr[2:] for arr[1:]
advance_two(a) == IF Len(a) <= 2 THEN << >> ELSE Tail(Tail(a))

\* line 130: arr[1:]
advance(a) == Tail(a)

\* The generator's code from where it stands up to its next yield or
\* return: [arrs, rdrs] as they are when get_min is called.
\*   "new":       lines 108-120, the readers and the initial chunks;
\*   "suspended": lines 130-133, drop the yielded row, refill if empty.
gen_run ==
  IF gen_pc = "new"
  THEN LET chunk == [fp \in DOMAIN FILE |->
                        read_chunk(FILE[fp], open_rdrs[fp], buff_size)]
       IN [arrs |-> [fp \in DOMAIN FILE |-> chunk[fp].arr],
           rdrs |-> [fp \in DOMAIN FILE |-> chunk[fp].rdr]]
  ELSE LET rest == advance(Val(arrs[cur]))
           chunk == read_chunk(FILE[cur], rdrs[cur], buff_size)
       IN IF Len(rest) = 0
          THEN [arrs |-> [arrs EXCEPT ![cur] = chunk.arr],
                rdrs |-> [rdrs EXCEPT ![cur] = chunk.rdr]]
          ELSE [arrs |-> [arrs EXCEPT ![cur] = Some(rest)], rdrs |-> rdrs]

\* next(gen) yields (rather than raising StopIteration)
gen_yields ==
  /\ gen_pc # "returned"
  /\ get_min(fps, gen_run.arrs) # ValueError

\* line 129: np.insert(arr[0], 1, fps.index(fp))
gen_value ==
  LET fp == Val(get_min(fps, gen_run.arrs))
      row == Val(gen_run.arrs[fp])[1]
  IN [time |-> row.time, file |-> fp - 1, hist |-> row.hist]

\* next(gen): the generator's variables after the call
next_gen ==
  /\ arrs' = IF gen_pc = "returned" THEN arrs ELSE gen_run.arrs
  /\ rdrs' = IF gen_pc = "returned" THEN rdrs ELSE gen_run.rdrs
  /\ cur' = IF gen_yields THEN Val(get_min(fps, gen_run.arrs)) ELSE cur
  /\ gen_pc' = IF gen_yields THEN "suspended" ELSE "returned"
  /\ stderr' = IF gen_pc = "new" THEN stderr \o empty_warnings ELSE stderr
  /\ merged' = IF gen_yields THEN Append(merged, gen_value) ELSE merged

\* ------------------------------------------------------------------------
\* main(): configuration (lines 278-298)
\* ------------------------------------------------------------------------
\* line 286: len(fp.readline().split(',')) on the first file; readline() of
\* an empty file is '' and ''.split(',') has one element
first_line_columns ==
  IF FILE[1] = << >> THEN 1
  ELSE NON_HIST_COLUMNS + Cardinality(DOMAIN FILE[1][1].hist)

header == "end-time, samples, min, avg, median, 90%, 95%, 99%, max"

\* lines 291-293: a table of plat_idx_to_val_coarse over np.arange(n)
bin_table(n, coarse, edge2) ==
  [x \in 0 .. (n - 1) |-> plat_idx_to_val_coarse(x, coarse, edge2)]

\* lines 278-298.  guess_max_from_bins either exits with status 1 after
\* writing its diagnostic, or returns max_cols; hist_cols = 0 = max_cols
\* (group_nr 0) makes float(max_cols) / __HIST_COLUMNS raise
\* ZeroDivisionError.  The generator is created but not started, and the
\* header is printed.
Configure ==
  /\ pc = "config"
  /\ LET total == first_line_columns
         hist_cols == total - NON_HIST_COLUMNS
         guess == guess_max_from_bins(group_nr, hist_cols)
         coarseness == Log2(guess.max_cols \div hist_cols)
     IN /\ interval' = IF interval = None THEN Some(DefaultInterval) ELSE interval
        /\ TOTAL_COLUMNS' = total
        /\ HIST_COLUMNS' = hist_cols
        /\ max_cols' = IF guess.ok THEN guess.max_cols ELSE max_cols
        /\ IF ~guess.ok
           THEN /\ pc' = "exit1"
                /\ stderr' = Append(stderr,
                                "Unable to determine bin values from input clat_hist files.")
                /\ UNCHANGED << bin_vals, lower_bin_vals, upper_bin_vals,
                                stdout, loop_vars >>
           ELSE IF hist_cols = 0
           THEN /\ pc' = "ZeroDivisionError"
                /\ UNCHANGED << bin_vals, lower_bin_vals, upper_bin_vals,
                                stdout, stderr, loop_vars >>
           ELSE /\ pc' = "read"
                /\ bin_vals' = bin_table(hist_cols, coarseness, 1)
                /\ lower_bin_vals' = bin_table(hist_cols, coarseness, 0)
                /\ upper_bin_vals' = bin_table(hist_cols, coarseness, 2)
                /\ stdout' = Append(stdout, header)
                /\ start' = 0
                /\ end' = Val(interval')
                /\ arr' = << >>
                /\ more_data' = TRUE
                /\ UNCHANGED stderr
  /\ UNCHANGED << ctx_vars, gen_vars, merged, last_call, calls,
                  weights_call >>

\* ------------------------------------------------------------------------
\* IntervalAggregator: weights, update_extreme, process_interval
\* ------------------------------------------------------------------------
\* A float of the weight computation is kept as a fraction num/den; 0.0 is
\* 0/1.  Within one call of main() every weight of bin i has the same
\* denominator (end_ts - start_ts = interval/2 + bin_vals[i]/1000), so the
\* sums of iHist stay fractions over that denominator.
Zero == [num |-> 0, den |-> 1]

\* a + b
frac_add(a, b) ==
  IF b.num = 0 THEN a
  ELSE IF a.num = 0 THEN b
  ELSE IF a.den = b.den THEN [num |-> a.num + b.num, den |-> a.den]
  ELSE [num |-> a.num * b.den + b.num * a.den, den |-> a.den * b.den]

\* np.where(mask): the indices of the set Q in increasing order, 0-based
np_where(Q) ==
  [j \in 0 .. (Cardinality(Q) - 1) |->
     CHOOSE i \in Q : Cardinality({q \in Q : q < i}) = j]

\* line 58: an element of ws is NaN: 0.0 / 0.0
weights_isnan(start_ts, end_ts, s, e) ==
  \E j \in DOMAIN start_ts :
    /\ end_ts - start_ts[j] = 0
    /\ Min2(end_ts, e) - Max2(start_ts[j], s) = 0

\* weights(start_ts, end_ts, start, end), lines 55-62: start_ts is an
\* array, end_ts a scalar; a NaN weight is replaced by 0.0
weights(start_ts, end_ts, s, e) ==
  [j \in DOMAIN start_ts |->
     LET sbounds == Max2(start_ts[j], s)
         ebounds == Min2(end_ts, e)
     IN IF ebounds - sbounds = 0 /\ end_ts - start_ts[j] = 0 THEN Zero
        ELSE [num |-> ebounds - sbounds, den |-> end_ts - start_ts[j]]]

\* update_extreme(val, fncn, new_val)
update_extreme(val, fncn, new_val) ==
  IF val = None THEN Some(new_val)
  ELSE IF fncn = "min" THEN Some(Min2(Val(val), new_val))
  ELSE Some(Max2(Val(val), new_val))

\* line 210: start_times, in ticks of 1/2000 ms
start_times(end_time) ==
  [i \in DOMAIN bin_vals |->
     2000 * end_time - 1000 * Val(interval) - bin_vals[i]]

\* a plausible slip: every bin of the sample taken, whenever it started
qualifying_all(end_time, iEnd) == DOMAIN bin_vals

\* line 211: the bins which started before the end of the interval
qualifying(end_time, iEnd) ==
  { i \in DOMAIN bin_vals : start_times(end_time)[i] < 2000 * iEnd }

\* a plausible slip: the rows counted instead of the histogram counts
count_rows(hs) == IF DOMAIN hs = {} THEN 0 ELSE 1

\* line 219: np.sum(hs)
count_samples(hs) == SumFn(hs, DOMAIN hs)

\* the body of the loop of process_interval (lines 208-225) for one
\* sample, on the accumulators acc = [iHist, ss_cnt, mn, mx, nan]
add_sample(acc, smp, iStart, iEnd) ==
  LET idx == np_where(qualifying(smp.time, iEnd))
      s_ts == [j \in DOMAIN idx |-> start_times(smp.time)[idx[j]]]
      l_bvs == [j \in DOMAIN idx |-> lower_bin_vals[idx[j]]]
      u_bvs == [j \in DOMAIN idx |-> upper_bin_vals[idx[j]]]
      hs == [j \in DOMAIN idx |-> smp.hist[idx[j]]]
      w == weights(s_ts, 2000 * smp.time, 2000 * iStart, 2000 * iEnd)
      ws == [j \in DOMAIN idx |->
               [num |-> hs[j] * w[j].num, den |-> w[j].den]]
      nz == np_where({ j \in DOMAIN hs : hs[j] # 0 })
      size == Cardinality(DOMAIN nz)
      len_hs == Cardinality(DOMAIN hs)
  IN [iHist |-> [i \in DOMAIN acc.iHist |->
                   IF \E j \in DOMAIN idx : idx[j] = i
                   THEN frac_add(acc.iHist[i],
                                 ws[CHOOSE j \in DOMAIN idx : idx[j] = i])
                   ELSE acc.iHist[i]],
      ss_cnt |-> acc.ss_cnt + count_samples(hs),
      mn |-> IF size > 0
             THEN update_extreme(acc.mn, "min", l_bvs[Max2(0, nz[0] - 1)])
             ELSE acc.mn,
      mx |-> IF size > 0
             THEN update_extreme(acc.mx, "max",
                                 u_bvs[Min2(len_hs - 1, nz[size - 1] + 1)])
             ELSE acc.mx,
      nan |-> acc.nan \o
              (IF weights_isnan(s_ts, 2000 * smp.time,
                                2000 * iStart, 2000 * iEnd)
               THEN << "WARNING: zero-length sample(s) detected." >>
               ELSE << >>)]

RECURSIVE fold_samples(_, _, _, _)
\* line 206: for end_time, file, hist in zip(times, files, hists)
fold_samples(acc, samples, iStart, iEnd) ==
  IF samples = << >> THEN acc
  ELSE fold_samples(add_sample(acc, Head(samples), iStart, iEnd),
                    Tail(samples), iStart, iEnd)

\* process_interval(ctx, samples, iStart, iEnd): the interval's weighted
\* histogram iHist, ss_cnt, the extremes, and the warnings of weights()
process_interval(samples, iStart, iEnd) ==
  fold_samples([iHist |-> [i \in 0 .. (HIST_COLUMNS - 1) |-> Zero],
                ss_cnt |-> 0, mn |-> None, mx |-> None, nan |-> << >>],
               samples, iStart, iEnd)

\* line 227 and print_all_stats: the row printed for an interval, if any;
\* avg and the percentiles are functions of bin_vals (vs) and iHist (ws)
interval_rows(res, iEnd) ==
  IF res.ss_cnt > 0
  THEN << [end |-> iEnd, samples |-> res.ss_cnt, min |-> Val(res.mn),
           ws |-> res.iHist, max |-> Val(res.mx)] >>
  ELSE << >>

\* ------------------------------------------------------------------------
\* main(): the loop over the intervals (lines 300-334)
\* ------------------------------------------------------------------------
\* a plausible slip: the read-ahead stops at the first buffered sample
read_more_first == Len(arr) = 0

\* line 307: the condition of the read-ahead loop
read_more ==
  Len(arr) = 0 \/ arr[Len(arr)].time < max_latency * 1000 + end

\* lines 307-313, one test of the read-ahead loop and, if it holds, one
\* next(gen)
ReadAhead ==
  /\ pc = "read"
  /\ IF read_more
     THEN /\ next_gen
          /\ IF gen_yields
             THEN /\ arr' = Append(arr, gen_value)
                  /\ pc' = "read"
                  /\ UNCHANGED more_data
             ELSE /\ more_data' = FALSE
                  /\ pc' = "process"
                  /\ UNCHANGED arr
     ELSE /\ pc' = "process"
          /\ UNCHANGED << gen_vars, stderr, merged, arr, more_data >>
  /\ UNCHANGED << ctx_vars, interval, table_vars, start, end, stdout,
                  last_call, calls, weights_call >>

\* lines 320-323: the start of the first interval, moved to the multiple
\* of the interval at or below the first time stamp less max_latency
\* (snaps_always: a plausible slip, the jump taken on every interval)
snaps_always == arr[1].time - max_latency > end

snaps == start = 0 /\ arr[1].time - max_latency > end

snapped_start ==
  (arr[1].time - max_latency)
    - ((arr[1].time - max_latency) % Val(interval))

\* a plausible slip: the samples ending at iEnd kept too
evict_from(samples, iEnd) == SelectSeq(samples, LAMBDA smp : smp.time >= iEnd)

\* line 330-331: the samples kept for the next interval
evict(samples, iEnd) == SelectSeq(samples, LAMBDA smp : smp.time > iEnd)

\* a plausible slip: the loop left as soon as the input is exhausted
loop_test_input(md, samples) == md

\* line 304: while more_data or len(arr) > 0
loop_test(md, samples) == md \/ Len(samples) > 0

\* lines 314-334 and the test of line 304: one interval
IntervalStep ==
  /\ pc = "process"
  /\ IF Len(arr) > 0
     THEN LET iStart == IF snaps THEN snapped_start ELSE start
              iEnd == IF snaps THEN snapped_start + Val(interval) ELSE end
              res == process_interval(arr, iStart, iEnd)
          IN /\ last_call' = Some([samples |-> arr, iStart |-> iStart,
                                   iEnd |-> iEnd, result |-> res])
             /\ calls' = Append(calls,
                                [samples |-> arr, iStart |-> iStart,
                                 iEnd |-> iEnd, result |-> res,
                                 pulled |-> Len(merged),
                                 more |-> more_data])
             /\ stdout' = stdout \o interval_rows(res, iEnd)
             /\ stderr' = stderr \o res.nan
             /\ arr' = evict(arr, iEnd)
             /\ start' = iStart + Val(interval)
     ELSE /\ start' = start + Val(interval)
          /\ UNCHANGED << last_call, calls, stdout, stderr, arr >>
  /\ end' = start' + Val(interval)
  /\ pc' = IF loop_test(more_data, arr') THEN "read" ELSE "done"
  /\ UNCHANGED << ctx_vars, interval, table_vars, gen_vars, more_data,
                  merged, weights_call >>

\* ------------------------------------------------------------------------
\* Initial states
\* ------------------------------------------------------------------------
\* the module-level values and the state before main() runs
InitProgram ==
  /\ HIST_COLUMNS = 1216
  /\ TOTAL_COLUMNS = 1219
  /\ max_cols = 0
  /\ bin_vals = << >>
  /\ lower_bin_vals = << >>
  /\ upper_bin_vals = << >>
  /\ gen_pc = "new"
  /\ rdrs = << >>
  /\ arrs = << >>
  /\ cur = 0
  /\ start = 0
  /\ end = 0
  /\ arr = << >>
  /\ more_data = TRUE
  /\ stdout = << >>
  /\ stderr = << >>
  /\ merged = << >>
  /\ last_call = None
  /\ calls = << >>
  /\ weights_call = None

\* the sequences over S of length at most n
SeqsUpTo(S, n) == UNION { [1 .. m -> S] : m \in 0 .. n }

\* the non-decreasing sequences of time stamps
SortedTimes(T, n) ==
  { s \in SeqsUpTo(T, n) : \A i \in 1 .. (Len(s) - 1) : s[i] <= s[i + 1] }

\* ---- the merge on its own: for rec in histogram_generator(ctx, fps, sz)
\* a file of the merge specification: row k carries the one-bin
\* histogram [k], so that every row of a file is told from the others
merge_file(times) ==
  [k \in 1 .. Len(times) |->
     [time |-> times[k], rw |-> 0, bsz |-> 0, hist |-> [i \in {0} |-> k]]]

MergeFiles == { merge_file(ts) : ts \in SortedTimes(1 .. MaxTime, MaxRows) }

InitMerge ==
  /\ FILE \in UNION { [1 .. n -> MergeFiles] : n \in 1 .. MaxFiles }
  /\ buff_size \in 1 .. MaxSz
  /\ warn \in BOOLEAN
  /\ interval = None
  /\ max_latency = 20
  /\ group_nr = 29
  /\ pc = "merge"
  /\ InitProgram

\* one next(gen) of the consumer's loop over the generator
Consume ==
  /\ pc = "merge"
  /\ next_gen
  /\ pc' = IF gen_yields THEN "merge" ELSE "merged"
  /\ UNCHANGED << ctx_vars, interval, table_vars, loop_vars, stdout,
                  last_call, calls, weights_call >>

NextMerge == Consume

SpecMerge == InitMerge /\ [][NextMerge]_vars

\* ---- the configuration on its own
GroupNrs == {0, 1, 2, 16, 19, 22, 23, 26, 27, 29}

\* the bin values of the table stay within the model checker's integers
representable(grp, n) ==
  LET guess == guess_max_from_bins(grp, n)
  IN ~guess.ok \/ guess.max_cols <= MaxFineBins

zero_row(n) ==
  [time |-> 1000, rw |-> 0, bsz |-> 0, hist |-> [i \in 0 .. (n - 1) |-> 0]]

InitBins ==
  /\ group_nr \in GroupNrs
  /\ FILE \in { << << >> >> } \cup
              { << << zero_row(n) >> >> : n \in 0 .. MaxHistCols }
  /\ representable(group_nr, first_line_columns - NON_HIST_COLUMNS)
  /\ buff_size = 10000
  /\ warn = FALSE
  /\ interval = None
  /\ max_latency = 20
  /\ pc = "config"
  /\ InitProgram

NextBins == Configure

SpecBins == InitBins /\ [][NextBins]_vars

\* ---- weights() on its own
\* the calls of weights(start_ts, end_ts, start, end) of a run: start_ts is
\* an array of at most MaxSpans start times, the times are taken from
\* WeightTimes, and start <= end; a run makes calls until MaxWarnings
\* warnings are written
MaxSpans == 2
MaxWarnings == 2

WeightTimes == {0, 1, 2}

WeightArrays ==
  UNION { [0 .. (n - 1) -> WeightTimes] : n \in 1 .. MaxSpans }

InitWeights ==
  /\ FILE = << >>
  /\ group_nr = 29
  /\ buff_size = 10000
  /\ warn \in BOOLEAN
  /\ interval = None
  /\ max_latency = 20
  /\ pc = "weights"
  /\ InitProgram

\* one call of weights(): what err() wrote is appended to stderr
CallWeights ==
  /\ pc = "weights"
  /\ Len(stderr) < MaxWarnings
  /\ \E start_ts \in WeightArrays, end_ts \in WeightTimes,
        s \in WeightTimes, e \in WeightTimes :
       /\ s <= e
       /\ weights_call' = Some([start_ts |-> start_ts, end_ts |-> end_ts,
                                start |-> s, end |-> e,
                                ws |-> weights(start_ts, end_ts, s, e)])
       /\ stderr' = stderr \o
                      (IF weights_isnan(start_ts, end_ts, s, e)
                       THEN << "WARNING: zero-length sample(s) detected." >>
                       ELSE << >>)
  /\ UNCHANGED << ctx_vars, interval, pc, table_vars, gen_vars, loop_vars,
                  stdout, merged, last_call, calls >>

NextWeights == CallWeights

SpecWeights == InitWeights /\ [][NextWeights]_vars

\* ---- the whole of main()
\* the inputs of the runs of main(): the files hold at most MaxSamples rows
\* in all, in at most MaxInputs files; every row has the same number of
\* histogram columns, 4 or 5, which fits group_nr 1 (coarseness 4) and
\* group_nr 20 (coarseness 8) respectively
MaxInputs == 2
MaxSamples == 2

RunGroupNrs == {1, 20}
RunTimes == {0, 1000, 1500, 3000}
RunHists(n) ==
  IF n = 4 THEN { <<0, 5, 0, 0>>, <<0, 0, 3, 0>> }
  ELSE { <<1, 0, 0, 0, 0>>, <<0, 0, 1, 0, 2>> }
RunIntervals == { None, Some(500) }
RunLatencies == { 0, 1 }

\* a tuple of counts as a histogram over 0 .. n-1
as_hist(counts) == [i \in 0 .. (Len(counts) - 1) |-> counts[i + 1]]

run_file(times, hists) ==
  [k \in 1 .. Len(times) |->
     [time |-> times[k], rw |-> 0, bsz |-> 0, hist |-> as_hist(hists[k])]]

\* the files of len rows, each with n histogram columns
RunFiles(n, len) ==
  UNION { { run_file(ts, hs) : hs \in [1 .. len -> RunHists(n)] } :
          ts \in { t \in SortedTimes(RunTimes, len) : Len(t) = len } }

RECURSIVE RunInputs(_, _, _)
\* the lists of at most k files holding at most rows rows in all
RunInputs(n, k, rows) ==
  IF k = 0 THEN { << >> }
  ELSE { << >> } \cup
       UNION { { << f >> \o rest : f \in RunFiles(n, len),
                                   rest \in RunInputs(n, k - 1, rows - len) } :
               len \in 0 .. rows }

Init ==
  /\ group_nr \in RunGroupNrs
  /\ \E n \in {4, 5} :
       FILE \in RunInputs(n, MaxInputs, MaxSamples) \ { << >> }
  /\ buff_size = 10000
  /\ warn = TRUE
  /\ interval \in RunIntervals
  /\ max_latency \in RunLatencies
  /\ pc = "config"
  /\ InitProgram

Next == Configure \/ ReadAhead \/ IntervalStep

Spec == Init /\ [][Next]_vars

\* ========================================================================
\* Claims about the StreamMerger (SpecMerge)
\* ========================================================================
\* the rows buffered in arrs
buffered(fp) == IF arrs[fp] = None THEN << >> ELSE Val(arrs[fp])

\* the records of merged that came from file fp, as read_chunk hands them on
RECURSIVE from_file(_, _)
from_file(recs, fp) ==
  IF recs = << >> THEN << >>
  ELSE LET r == Head(recs)
       IN (IF r.file = fp - 1
           THEN << [time |-> r.time, hist |-> r.hist] >> ELSE << >>)
          \o from_file(Tail(recs), fp)

\* C1: the records yielded by histogram_generator are in non-decreasing
\* endTime order, whatever the chunk size, when every file is.
C1_MergedSorted ==
  \A i \in 1 .. (Len(merged) - 1) : merged[i].time <= merged[i + 1].time

\* C1 witness: a finished merge of two files in which a record of the second
\* file was yielded before a record of the first, with chunk size 1.
C1_Witness ==
  /\ pc = "merged"
  /\ buff_size = 1
  /\ Len(merged) >= 3
  /\ \E i \in 1 .. (Len(merged) - 1) :
       merged[i].file = 1 /\ merged[i + 1].file = 0

\* C2: at every yield the record is the head of the lowest-indexed file
\* among the non-exhausted files whose head has the minimum endTime.
C2_TieBreak ==
  gen_pc = "suspended" =>
    /\ arrs[cur] # None
    /\ \A g \in DOMAIN arrs :
         arrs[g] # None =>
           \/ buffered(cur)[1].time < buffered(g)[1].time
           \/ buffered(cur)[1].time = buffered(g)[1].time /\ cur <= g
    /\ merged[Len(merged)] =
         [time |-> buffered(cur)[1].time, file |-> cur - 1,
          hist |-> buffered(cur)[1].hist]

\* C2 witness: a yield at which another file's head has the same endTime.
C2_Witness ==
  /\ gen_pc = "suspended"
  /\ \E g \in DOMAIN arrs :
       /\ g # cur
       /\ arrs[g] # None
       /\ buffered(g)[1].time = buffered(cur)[1].time

\* C3: run to completion, the merged output holds every row of every file
\* exactly once, tagged with its file's index, in the file's own order.
C3_Permutation ==
  pc = "merged" =>
    /\ \A fp \in DOMAIN FILE :
         from_file(merged, fp) =
           [k \in 1 .. Len(FILE[fp]) |-> strip_row(FILE[fp][k])]
    /\ \A i \in 1 .. Len(merged) : merged[i].file + 1 \in DOMAIN FILE

\* C3 witness: a finished merge of two non-empty files, one of them with
\* more rows than the chunk size.
C3_Witness ==
  /\ pc = "merged"
  /\ Len(FILE) = 2
  /\ \A fp \in DOMAIN FILE : FILE[fp] # << >>
  /\ \E fp \in DOMAIN FILE : Len(FILE[fp]) > buff_size
  /\ Len(merged) = Len(FILE[1]) + Len(FILE[2])

\* C4: the chunk buffers never hold more than N * sz records in all.
C4_BufferBound ==
  SumFn([fp \in DOMAIN arrs |-> Len(buffered(fp))], DOMAIN arrs)
    <= Len(FILE) * buff_size

\* the stable merge of the files: all rows ordered by (time, file, row)
RECURSIVE ordered_merge(_)
ordered_merge(left) ==
  IF left = {} THEN << >>
  ELSE LET m == CHOOSE x \in left : \A y \in left :
                  \/ FILE[x[1]][x[2]].time < FILE[y[1]][y[2]].time
                  \/ /\ FILE[x[1]][x[2]].time = FILE[y[1]][y[2]].time
                     /\ (x[1] < y[1] \/ (x[1] = y[1] /\ x[2] <= y[2]))
       IN << [time |-> FILE[m[1]][m[2]].time, file |-> m[1] - 1,
              hist |-> FILE[m[1]][m[2]].hist] >>
          \o ordered_merge(left \ {m})

all_rows == UNION { {fp} \X (1 .. Len(FILE[fp])) : fp \in DOMAIN FILE }

\* C5: with empty input files the merge runs to its end: an empty file is
\* never selected, the output is the ordered merge of the other files, and
\* the warning is written only if ctx.warn.
C5_EmptyFiles ==
  (\E fp \in DOMAIN FILE : FILE[fp] = << >>) =>
    /\ \A fp \in DOMAIN FILE :
         FILE[fp] = << >> =>
           /\ cur # fp
           /\ \A i \in 1 .. Len(merged) : merged[i].file # fp - 1
           /\ gen_pc # "new" => arrs[fp] = None
    /\ pc = "merged" => merged = ordered_merge(all_rows)
    /\ ~warn => stderr = << >>

\* C5 witness: a finished merge of an empty and a non-empty file, with
\* warnings enabled and written.
C5_Witness ==
  /\ pc = "merged"
  /\ warn
  /\ stderr # << >>
  /\ \E fp \in DOMAIN FILE : FILE[fp] = << >>
  /\ Len(merged) >= 2

\* ========================================================================
\* Claims about the bin tables and guess_max_from_bins (SpecBins)
\* ========================================================================
\* C8: lower[i] <= mid[i] <= upper[i], and lower and upper are
\* non-decreasing in i.
C8_TableOrdered ==
  pc = "read" =>
    \A i \in 0 .. (HIST_COLUMNS - 1) :
      /\ lower_bin_vals[i] <= bin_vals[i]
      /\ bin_vals[i] <= upper_bin_vals[i]
      /\ i + 1 < HIST_COLUMNS =>
           /\ lower_bin_vals[i] <= lower_bin_vals[i + 1]
           /\ upper_bin_vals[i] <= upper_bin_vals[i + 1]

\* C8 witness: a table that reaches the logarithmic region without
\* coarsening.
C8_Witness ==
  /\ pc = "read"
  /\ HIST_COLUMNS = max_cols
  /\ HIST_COLUMNS > ShiftLeft(FIO_IO_U_PLAT_VAL, 1)

\* C9: upper[i] = lower[i+1] for every i with i+1 < H.
C9_Contiguous ==
  pc = "read" =>
    \A i \in 0 .. (HIST_COLUMNS - 2) :
      upper_bin_vals[i] = lower_bin_vals[i + 1]

\* a (coarseness, candidate) pair of guess_max_from_bins that gives H columns
matches(grp, hist_cols) ==
  \E c \in 0 .. max_coarse :
    \E b \in 1 .. Len(candidate_bins(grp)) :
      /\ candidate_bins(grp)[b] % Pow2(c) = 0
      /\ candidate_bins(grp)[b] = hist_cols * Pow2(c)

\* C10: a column count that matches no candidate ends the run with status 1
\* and the diagnostic, before the header; one that matches makes
\* guess_max_from_bins return a candidate groupBins with
\* groupBins / 2^c = H for a c in 0..8.
C10_ColumnMismatch ==
  pc # "config" =>
    IF matches(group_nr, first_line_columns - NON_HIST_COLUMNS)
    THEN /\ pc # "exit1"
         /\ \E b \in 1 .. Len(candidate_bins(group_nr)) :
              max_cols = candidate_bins(group_nr)[b]
         /\ \E c \in 0 .. max_coarse :
              /\ max_cols % Pow2(c) = 0
              /\ max_cols \div Pow2(c) = HIST_COLUMNS
    ELSE /\ pc = "exit1"
         /\ stdout = << >>
         /\ Len(stderr) = 1

\* C10 witness: the run has ended with status 1 on a column count that fits
\* no candidate.
C10_Witness ==
  /\ pc = "exit1"
  /\ HIST_COLUMNS > 0
  /\ stderr # << >>

\* ========================================================================
\* Claims about the interval aggregation (Spec)
\* ========================================================================
\* the interval rows printed so far (stdout without the header)
rows_out == SubSeq(stdout, 2, Len(stdout))

RECURSIVE sum_samples(_)
\* the sum of sampleCount over rows
sum_samples(rows) ==
  IF rows = << >> THEN 0 ELSE Head(rows).samples + sum_samples(Tail(rows))

\* the input rows, file after file
RECURSIVE input_rows(_)
input_rows(files) ==
  IF files = << >> THEN << >> ELSE Head(files) \o input_rows(Tail(files))

RECURSIVE sum_counts(_)
\* the total of the histogram counts of a sequence of rows or samples
sum_counts(rows) ==
  IF rows = << >> THEN 0
  ELSE SumFn(Head(rows).hist, DOMAIN Head(rows).hist) + sum_counts(Tail(rows))

\* C6 as stated: the sum of sampleCount over the emitted rows is at most
\* the number of input rows of all files.
C6_SumWithinRowCount ==
  sum_samples(rows_out) <= Len(input_rows(FILE))

\* C6 amended: the sampleCount of every emitted row is at most the total of
\* the histogram counts of all input rows, and equals it for an interval
\* for which every input row is buffered with all its bins qualifying.
C6_RowWithinCounts ==
  /\ \A k \in 1 .. Len(rows_out) :
       rows_out[k].samples <= sum_counts(input_rows(FILE))
  /\ last_call # None =>
       LET call == Val(last_call)
       IN ( /\ Len(call.samples) = Len(input_rows(FILE))
            /\ \A k \in 1 .. Len(call.samples) : \A i \in DOMAIN bin_vals :
                 2000 * call.samples[k].time - 1000 * Val(interval)
                   - bin_vals[i] < 2000 * call.iEnd )
          => call.result.ss_cnt = sum_counts(input_rows(FILE))

\* C6 witness: a finished run with two rows emitted whose sampleCounts sum
\* to more than the number of input rows.
C6_Witness ==
  /\ pc = "done"
  /\ Len(rows_out) >= 2
  /\ sum_samples(rows_out) > Len(input_rows(FILE))
  /\ rows_out[1].samples = sum_counts(input_rows(FILE))

\* every bin of the sample has its derived start time at or after iEnd
wholly_after(smp, iEnd) ==
  \A i \in DOMAIN bin_vals :
    2000 * smp.time - 1000 * Val(interval) - bin_vals[i] >= 2000 * iEnd

\* C7: a buffered sample all of whose bins start at or after intervalEnd
\* adds nothing to the interval's weighted histogram or sampleCount and
\* leaves its extremes alone: the interval's result is the result without
\* these samples.
C7_BoundaryExclusion ==
  last_call # None =>
    LET call == Val(last_call)
        others == SelectSeq(call.samples,
                            LAMBDA smp : ~wholly_after(smp, call.iEnd))
    IN call.result = process_interval(others, call.iStart, call.iEnd)

\* C7 witness: an interval processed with a sample wholly after its end in
\* the buffer, beside a sample that counts.
C7_Witness ==
  /\ last_call # None
  /\ \E k \in 1 .. Len(Val(last_call).samples) :
       /\ wholly_after(Val(last_call).samples[k], Val(last_call).iEnd)
       /\ sum_counts(<< Val(last_call).samples[k] >>) > 0
  /\ Val(last_call).result.ss_cnt > 0

\* the total of the counts of the samples in the bins which qualify for
\* the interval ending at iEnd
RECURSIVE qualifying_counts(_, _)
qualifying_counts(samples, iEnd) ==
  IF samples = << >> THEN 0
  ELSE SumFn(Head(samples).hist, qualifying(Head(samples).time, iEnd))
         + qualifying_counts(Tail(samples), iEnd)

\* the run of two files of one record each, both ending at 1000, with
\* counts [0,5,0,0] and [0,0,3,0] and an interval of 1000 ms
two_records_at_1000 ==
  /\ Len(FILE) = 2
  /\ \A fp \in DOMAIN FILE : Len(FILE[fp]) = 1 /\ FILE[fp][1].time = 1000
  /\ FILE[1][1].hist = as_hist(<< 0, 5, 0, 0 >>)
  /\ FILE[2][1].hist = as_hist(<< 0, 0, 3, 0 >>)
  /\ interval = Some(1000)

\* every row printed is the row of a call of process_interval, and its
\* sampleCount is the total of the qualifying counts of the buffer
rows_are_qualifying_counts ==
  /\ \A k \in 1 .. Len(calls) :
       calls[k].result.ss_cnt
         = qualifying_counts(calls[k].samples, calls[k].iEnd)
  /\ \A r \in 1 .. Len(rows_out) :
       \E k \in 1 .. Len(calls) :
         /\ calls[k].iEnd = rows_out[r].end
         /\ rows_out[r].samples
              = qualifying_counts(calls[k].samples, calls[k].iEnd)

new_call == calls'[Len(calls')]

\* C12: when the driver has processed an interval ending at end, the buffer
\* holds exactly the samples it held with endTime > end, in their order: a
\* sample with endTime <= end is removed, and no other is.
C12_Eviction ==
  [][(pc = "process" /\ Len(arr) > 0) =>
       /\ Len(calls') = Len(calls) + 1
       /\ new_call.samples = arr
       /\ arr' = SelectSeq(arr, LAMBDA smp : smp.time > new_call.iEnd)]_vars

\* C12 witness: after an interval processed on two samples, the one ending
\* at the end of the interval is gone and the one ending later is kept.
C12_Witness ==
  /\ pc = "read"
  /\ calls # << >>
  /\ LET call == calls[Len(calls)]
     IN /\ Len(call.samples) = 2
        /\ call.samples[1].time = call.iEnd
        /\ call.samples[2].time > call.iEnd
        /\ arr = << call.samples[2] >>

\* C13: the intervals passed to process_interval have the width W, each
\* starts at a multiple of W and where the one before it ended; only the
\* first may start elsewhere than at 0, at a multiple of W at or below the
\* first time stamp.
C13_IntervalSequence ==
  \A k \in 1 .. Len(calls) :
    LET W == Val(interval)
    IN /\ calls[k].iEnd = calls[k].iStart + W
       /\ calls[k].iStart % W = 0
       /\ k > 1 => /\ calls[k].iStart = calls[k - 1].iEnd
                   /\ calls[k].iStart > calls[k - 1].iStart
       /\ k = 1 => \/ calls[k].iStart = 0
                   \/ /\ calls[k].iStart > 0
                      /\ calls[k].iStart <= merged[1].time

\* C13 witness: three intervals processed, the first of them moved to the
\* first time stamp.
C13_Witness ==
  /\ Len(calls) >= 3
  /\ calls[1].iStart > 0
  /\ calls[3].iStart = calls[1].iStart + 2 * Val(interval)

\* the records not yet pulled from the generator when call was made
unread(call) ==
  SubSeq(ordered_merge(all_rows), call.pulled + 1, Len(input_rows(FILE)))

\* C14: at every call of process_interval for [start, end) every record
\* not yet pulled from the merger ends at or after
\* end + max_latency * 1000.
C14_Lookahead ==
  \A k \in 1 .. Len(calls) :
    \A j \in 1 .. Len(unread(calls[k])) :
      unread(calls[k])[j].time >= calls[k].iEnd + max_latency * 1000

\* the same on the intervals which were not moved: every call but a first
\* call whose interval was moved to the first time stamp
C14_LookaheadUnmoved ==
  \A k \in 1 .. Len(calls) :
    (k > 1 \/ calls[k].iStart = 0) =>
      \A j \in 1 .. Len(unread(calls[k])) :
        unread(calls[k])[j].time >= calls[k].iEnd + max_latency * 1000

\* the weight weights() gives to bin i of the sample smp in the interval
\* [iStart, iEnd], as process_interval calls it
weight_of(smp, i, iStart, iEnd) ==
  weights([j \in {0} |-> start_times(smp.time)[i]], 2000 * smp.time,
          2000 * iStart, 2000 * iEnd)[0]

\* the overlap of the span of bin i of smp with [iStart, iEnd], in ticks,
\* never below 0
overlap(smp, i, iStart, iEnd) ==
  Max2(0, Min2(2000 * smp.time, 2000 * iEnd)
            - Max2(start_times(smp.time)[i], 2000 * iStart))

\* the weights of the call are overlap / span, within [0, 1]
weights_in_range(call) ==
  \A s \in 1 .. Len(call.samples) :
    \A i \in qualifying(call.samples[s].time, call.iEnd) :
      LET smp == call.samples[s]
          w == weight_of(smp, i, call.iStart, call.iEnd)
      IN /\ w.den = 2000 * smp.time - start_times(smp.time)[i]
         /\ w.den > 0
         /\ w.num = overlap(smp, i, call.iStart, call.iEnd)
         /\ 0 <= w.num
         /\ w.num <= w.den

\* C15: at every call of process_interval the weight of each qualifying
\* bin of each buffered sample is
\* max(0, min(binEnd, iEnd) - max(binStart, iStart)) / (binEnd - binStart),
\* which is within [0, 1]: no negative weight is added.
C15_WeightRange ==
  \A k \in 1 .. Len(calls) : weights_in_range(calls[k])

\* the same in the runs whose first interval was not moved
C15_WeightRangeUnmoved ==
  (calls # << >> /\ calls[1].iStart = 0) => C15_WeightRange

\* the bins of the full table in which smp has a non-zero count and which
\* qualify for the interval ending at iEnd
nonzero_qualifying(smp, iEnd) ==
  { i \in qualifying(smp.time, iEnd) : smp.hist[i] # 0 }

\* the least and the greatest element of a non-empty set of indices
lowest(Q) == CHOOSE i \in Q : \A q \in Q : i <= q
highest(Q) == CHOOSE i \in Q : \A q \in Q : q <= i

RECURSIVE padded_min(_, _, _)
\* the min of lower[max(0, lo - 1)] over the samples, from acc (unset: None)
padded_min(acc, samples, iEnd) ==
  IF samples = << >> THEN acc
  ELSE LET Q == nonzero_qualifying(Head(samples), iEnd)
           v == lower_bin_vals[Max2(0, lowest(Q) - 1)]
       IN padded_min(IF Q = {} THEN acc
                     ELSE IF acc = None THEN Some(v)
                     ELSE Some(Min2(Val(acc), v)),
                     Tail(samples), iEnd)

RECURSIVE padded_max(_, _, _)
\* the max of upper[min(H - 1, hi + 1)] over the samples, from acc
padded_max(acc, samples, iEnd) ==
  IF samples = << >> THEN acc
  ELSE LET Q == nonzero_qualifying(Head(samples), iEnd)
           v == upper_bin_vals[Min2(HIST_COLUMNS - 1, highest(Q) + 1)]
       IN padded_max(IF Q = {} THEN acc
                     ELSE IF acc = None THEN Some(v)
                     ELSE Some(Max2(Val(acc), v)),
                     Tail(samples), iEnd)

\* C16: the min of an interval is the min, over the buffered samples with
\* a non-zero qualifying count, of lower[max(0, lo - 1)], and its max the
\* max of upper[min(H - 1, hi + 1)], lo and hi being the lowest and the
\* highest index in the full table of a non-zero qualifying count.
C16_PaddedExtremes ==
  \A k \in 1 .. Len(calls) :
    /\ calls[k].result.mn = padded_min(None, calls[k].samples, calls[k].iEnd)
    /\ calls[k].result.mx = padded_max(None, calls[k].samples, calls[k].iEnd)

\* the max alone is as C16 has it
C16_PaddedMax ==
  \A k \in 1 .. Len(calls) :
    calls[k].result.mx = padded_max(None, calls[k].samples, calls[k].iEnd)

\* the sum of the weighted histogram h is positive: decided by the signs
\* of its entries, whose denominators are positive in a run of main();
\* where entries of both signs occur the sum is not decided here, and is
\* taken to be positive
total_weight_positive(h) == \E i \in DOMAIN h : h[i].num > 0

\* the sum of the weighted histogram h is zero, every entry being zero
total_weight_zero(h) == \A i \in DOMAIN h : h[i].num = 0

\* C18: whenever process_interval prints a row (ss_cnt > 0), the sum of
\* the weighted histogram iHist handed to the mean and the percentiles is
\* strictly positive.
C18_PositiveWeight ==
  \A k \in 1 .. Len(calls) :
    calls[k].result.ss_cnt > 0 =>
      total_weight_positive(calls[k].result.iHist)

\* the same for the first interval of the runs with a lookahead, when it
\* was not moved: a record ending at 0 = iStart is enough to break it
C18_PositiveWeightAtOrigin ==
  (max_latency >= 1 /\ calls # << >> /\ calls[1].iStart = 0) =>
    (calls[1].result.ss_cnt > 0 =>
       ~ total_weight_zero(calls[1].result.iHist))

\* at the end of the loop: the generator is exhausted after yielding every
\* record of every file, the buffer is empty, and every record was among
\* the samples of a call of process_interval
drained ==
  /\ ~ more_data
  /\ gen_pc = "returned"
  /\ merged = ordered_merge(all_rows)
  /\ arr = << >>
  /\ \A j \in 1 .. Len(merged) :
       \E k \in 1 .. Len(calls) :
         \E s \in 1 .. Len(calls[k].samples) :
           calls[k].samples[s] = merged[j] /\ calls[k].pulled >= j

\* the greatest time stamp of the input (0 without a record)
last_time ==
  LET rows == input_rows(FILE)
  IN IF rows = << >> THEN 0
     ELSE CHOOSE t \in { rows[r].time : r \in 1 .. Len(rows) } :
            \A r \in 1 .. Len(rows) : rows[r].time <= t

\* the span from the start of the next interval to the end of the last
\* buffered sample
backlog == arr[Len(arr)].time - start

\* C19: with finite files and W > 0 the run ends.  A step of the read-ahead
\* pulls a record or leaves the read-ahead, and the generator has no more
\* than the records of the files to give; a pass of the loop moves the
\* interval up by W or more, and no more than
\* last_time / W + 1 + the number of records intervals are processed;
\* once the generator is exhausted a pass ends the loop or leaves a
\* smaller, positive backlog.  When the loop has ended the merged sequence
\* holds every record, the buffer is empty and every record was in the
\* buffer for a call of process_interval.
C19_Termination ==
  /\ [][pc = "read" =>
         \/ pc' = "process"
         \/ /\ pc' = "read"
            /\ Len(merged') = Len(merged) + 1
            /\ Len(merged') <= Len(input_rows(FILE))]_vars
  /\ [][pc = "process" =>
         /\ start' >= start + Val(interval)
         /\ Val(interval) > 0
         /\ IF arr' = << >> /\ ~ more_data THEN pc' = "done"
            ELSE pc' = "read"
         /\ (~ more_data /\ arr' # << >>) =>
              (0 < backlog' /\ backlog' < backlog)]_vars
  /\ [](calls # << >> =>
         Len(calls) <= (last_time \div Val(interval)) + 1
                         + Len(input_rows(FILE)))
  /\ [](pc = "done" => drained)

\* C19 witness: a run has ended after two records, with two intervals or
\* more processed after the generator was exhausted.
C19_Witness ==
  /\ pc = "done"
  /\ Len(merged) = 2
  /\ Len(calls) >= 3
  /\ ~ calls[Len(calls) - 1].more
  /\ arr = << >>

\* the j-th record yielded is in the buffer at the k-th call of
\* process_interval: pulled by then, and not evicted after an earlier call
present(j, k) ==
  /\ j <= calls[k].pulled
  /\ \A q \in 1 .. (k - 1) :
       j <= calls[q].pulled => merged[j].time > calls[q].iEnd

\* the length in ticks of the span of bin i: W/2 + mid[i]/1000 ms
span(i) == 1000 * Val(interval) + bin_vals[i]

RECURSIVE weight_sum(_, _, _)
\* the numerators, over span(i), of the weights given to bin i of the j-th
\* record by the first k calls of process_interval, added up
weight_sum(j, i, k) ==
  IF k = 0 THEN 0
  ELSE weight_sum(j, i, k - 1)
       + (IF present(j, k) /\ i \in qualifying(merged[j].time, calls[k].iEnd)
          THEN weight_of(merged[j], i, calls[k].iStart, calls[k].iEnd).num
          ELSE 0)

\* the span of bin i of the j-th record starts at or after the start of
\* the first interval processed and is no longer than the lookahead
conserved_span(j, i) ==
  /\ start_times(merged[j].time)[i] >= 2000 * calls[1].iStart
  /\ span(i) <= 2000 * (max_latency * 1000)

\* the span of bin i of the j-th record overlaps the k-th interval
overlaps(j, i, k) ==
  /\ start_times(merged[j].time)[i] < 2000 * calls[k].iEnd
  /\ 2000 * merged[j].time > 2000 * calls[k].iStart

\* the weights of every conserved span sum to 1, and its record is in the
\* buffer for every interval the span overlaps
mass_conserved ==
  \A j \in 1 .. Len(merged) : \A i \in DOMAIN bin_vals :
    conserved_span(j, i) =>
      /\ weight_sum(j, i, Len(calls)) = span(i)
      /\ \A k \in 1 .. Len(calls) : overlaps(j, i, k) => present(j, k)

\* C20: at the end of a run, for every record and every bin whose span
\* [T - W/2 - mid[i]/1000, T] starts at or after the start of the first
\* interval processed and is no longer than max_latency * 1000, the
\* weights given to the bin over all intervals sum to exactly 1, and the
\* record is in the buffer for every interval the span overlaps.
C20_MassConservation == pc = "done" => mass_conserved

\* the same for the runs whose first interval was not moved
C20_MassConservationUnmoved ==
  (pc = "done" /\ calls # << >> /\ calls[1].iStart = 0) => mass_conserved

\* a run not moved has ended in which the weight of a conserved span was
\* split between two intervals
C20_SplitReached ==
  /\ pc = "done"
  /\ calls # << >>
  /\ calls[1].iStart = 0
  /\ \E j \in 1 .. Len(merged) : \E i \in DOMAIN bin_vals :
       /\ conserved_span(j, i)
       /\ \E k \in 1 .. Len(calls) :
            /\ present(j, k)
            /\ 0 < weight_of(merged[j], i, calls[k].iStart, calls[k].iEnd).num
            /\ weight_of(merged[j], i, calls[k].iStart, calls[k].iEnd).num
                 < span(i)

\* ========================================================================
\* Claims about weights() (SpecWeights)
\* ========================================================================
\* the spans of zero length of a call of weights()
zero_length(call) ==
  { j \in DOMAIN call.start_ts : call.start_ts[j] = call.end_ts }

\* C17: a span with binEnd = binStart is given the weight 0 by weights();
\* the zero-length warning is written only if warnings are enabled, and at
\* most once in a run.
C17_ZeroLength ==
  /\ weights_call # None =>
       \A j \in zero_length(Val(weights_call)) :
         Val(weights_call).ws[j] = Zero
  /\ stderr # << >> => warn
  /\ Len(stderr) <= 1

\* C17, first part: the weight of a zero-length span is 0
C17_ZeroWeight ==
  weights_call # None =>
    \A j \in zero_length(Val(weights_call)) : Val(weights_call).ws[j] = Zero

\* C17, second part: the warning is written only if warnings are enabled
C17_WarningIfEnabled == stderr # << >> => warn

\* C17, third part: the warning is written at most once
C17_WarningOnce == Len(stderr) <= 1

\* what holds of weights(): a zero-length span inside [start, end] gets the
\* weight 0 with a warning at every such call, whatever ctx.warn; one
\* outside gets a non-zero numerator over 0 (an infinity)
C17_ZeroLengthAsCoded ==
  weights_call # None =>
    LET call == Val(weights_call)
    IN /\ \A j \in zero_length(call) :
            IF call.start <= call.end_ts /\ call.end_ts <= call.end
            THEN call.ws[j] = Zero /\ stderr # << >>
            ELSE call.ws[j].den = 0 /\ call.ws[j].num # 0
       /\ \A j \in DOMAIN call.start_ts \ zero_length(call) :
            call.ws[j].den # 0

====
